---- MODULE Spec2Model ----
(***************************************************************************)
(* Model of zampy's ERA5 download / ingest helpers:                        *)
(*   src/src/zampy/datasets/utils.py  (cds_request, get_file_size,         *)
(*       time_bounds_to_year_month, parse_nc_file and the registry)        *)
(*   src/src/zampy/datasets/era5.py   (ERA5.download)                      *)
(* Three specifications share the module:                                  *)
(*   BatchSpec    - time_bounds_to_year_month on bounded TimeBounds        *)
(*   Spec         - Dataset.download -> cds_request, re-invoked            *)
(*   ParseSpec    - parse_nc_file applied once and a second time           *)
(***************************************************************************)
EXTENDS Integers, Sequences, FiniteSets, TLC

VARIABLES
    \* ---- BatchSpec
    bpc,              \* "input" | "done"
    tb,               \* TimeBounds handed to time_bounds_to_year_month
    year_month_pairs, \* its return value
    \* ---- Spec (download)
    pc,               \* position inside Dataset.download / cds_request
    run,              \* number of the current invocation of download
    cls,              \* "ERA5" | "ERA5Land": the Dataset whose download runs
    time_bounds, spatial_bounds, variable_names, overwrite,  \* arguments
    dir_exists,       \* download_folder exists on disk
    files,            \* download_folder content: file name -> byte size
    properties,       \* properties.json content, <<>> when absent
    retval,           \* value returned by download, "none" before return
    error,            \* exception propagating out of download, "none"
    config,           \* what the read of CDSAPI_CONFIG_PATH found
    items,            \* product(year_month_pairs, variables)
    k,                \* number of loop items already consumed
    calls,            \* c.retrieve calls issued in this run, in order
    outcome,          \* what the last loop item did after c.retrieve:
                      \* "downloaded" | "skipped" | "failed", else "none"
    content_length,   \* r.content_length seen by the last loop item
    steps,            \* steps of download taken in this run, in order
    prev_calls, prev_returned, \* whether the previous run returned, and
                      \* the calls it issued if it did
    \* ---- ParseSpec
    ppc,              \* "raw" | "parsed" | "reparsed" | "failed"
    ds0,              \* variables of the raw file, in file order
    ds1,              \* dataset returned by parse_nc_file(ds0)
    ds2               \* dataset returned by parse_nc_file(ds1)

batch_vars == <<bpc, tb, year_month_pairs>>
dl_vars == <<pc, run, cls, time_bounds, spatial_bounds, variable_names,
             overwrite, dir_exists, files, properties, retval, error, config,
             items, k, calls, outcome, content_length,
             steps, prev_calls, prev_returned>>
parse_vars == <<ppc, ds0, ds1, ds2>>
vars == <<batch_vars, dl_vars, parse_vars>>

----------------------------------------------------------------------------
\* Bounds

\* months in the window TimeBounds of BatchSpec are drawn from
MaxMonths == 4
\* months in the window TimeBounds of Spec are drawn from
MaxDlMonths == 2
\* longest variable_names list handed to download
MaxVarsLen == 2
\* largest byte size the server reports for a result
MaxSize == 1
\* invocations of download on the same folder
MaxRuns == 2
\* most variables in a raw nc file
MaxDsVars == 2
\* most loop items (year-month pairs times variables) of one cds_request
MaxItems == 4

----------------------------------------------------------------------------
\* Calendar (what numpy.datetime64 days and pandas month ends compute)

\* first month of the windows: December 2011, so that a window crosses a
\* year boundary and meets the leap February of 2012
FirstMonthIdx == 2011 * 12 + 11

YearOf(idx) == idx \div 12
MonthOf(idx) == (idx % 12) + 1
MonthIdx(date) == date[1] * 12 + (date[2] - 1)

IsLeap(y) == (y % 4 = 0 /\ y % 100 # 0) \/ y % 400 = 0

DaysInMonth(y, m) ==
    IF m = 2 THEN (IF IsLeap(y) THEN 29 ELSE 28)
    ELSE IF m \in {4, 6, 9, 11} THEN 30 ELSE 31

\* dates are <<year, month, day>>, ordered as timestamps are
DateLE(a, b) ==
    \/ a[1] < b[1]
    \/ a[1] = b[1] /\ a[2] < b[2]
    \/ a[1] = b[1] /\ a[2] = b[2] /\ a[3] <= b[3]

MonthEndDate(idx) ==
    <<YearOf(idx), MonthOf(idx), DaysInMonth(YearOf(idx), MonthOf(idx))>>

DatesOf(idxs, days) ==
    {dt \in {<<YearOf(i), MonthOf(i), d>> : i \in idxs, d \in days} :
        dt[3] <= DaysInMonth(dt[1], dt[2])}

\* Python's str() of a non-negative int: decimal digits, no padding
Digit == <<"0", "1", "2", "3", "4", "5", "6", "7", "8", "9">>

RECURSIVE str(_)
str(n) == IF n < 10 THEN Digit[n + 1]
          ELSE str(n \div 10) \o Digit[(n % 10) + 1]

----------------------------------------------------------------------------
\* utils.time_bounds_to_year_month

\* pd.date_range(start, end, freq="M"): the month ends from the first one
\* on or after start, while they are on or before end
RECURSIVE date_range_M(_, _)
date_range_M(idx, end) ==
    IF DateLE(MonthEndDate(idx), end)
    THEN <<MonthEndDate(idx)>> \o date_range_M(idx + 1, end)
    ELSE <<>>

\* the same walk over month starts (freq="MS"), a different sampling
RECURSIVE date_range_MS(_, _, _)
date_range_MS(idx, start, end) ==
    LET first == <<YearOf(idx), MonthOf(idx), 1>>
    IN  IF ~DateLE(first, end) THEN <<>>
        ELSE (IF DateLE(start, first) THEN <<first>> ELSE <<>>)
             \o date_range_MS(idx + 1, start, end)

time_bounds_to_year_month_MS(time_bounds_) ==
    LET date_range == date_range_MS(MonthIdx(time_bounds_.start),
                                    time_bounds_.start, time_bounds_.end)
    IN  [i \in 1..Len(date_range) |->
            <<str(date_range[i][1]), str(date_range[i][2])>>]

time_bounds_to_year_month(time_bounds_) ==
    LET date_range == date_range_M(MonthIdx(time_bounds_.start),
                                   time_bounds_.end)
    IN  [i \in 1..Len(date_range) |->
            <<str(date_range[i][1]), str(date_range[i][2])>>]

----------------------------------------------------------------------------
\* BatchSpec: time_bounds_to_year_month applied to bounded TimeBounds

BatchMonths == FirstMonthIdx .. (FirstMonthIdx + MaxMonths - 1)
BatchDates == DatesOf(BatchMonths, {1, 2, 15, 28, 29, 30, 31})

\* TimeBounds keeps start <= end (dataset_protocol's data model)
TimeBoundsOver(dates) ==
    {b \in [start : dates, end : dates] : DateLE(b.start, b.end)}

NoTimeBounds == [start |-> <<0, 1, 1>>, end |-> <<0, 1, 1>>]

BatchInit ==
    /\ bpc = "input"
    /\ tb \in TimeBoundsOver(BatchDates)
    /\ year_month_pairs = <<>>

Batch ==
    /\ bpc = "input"
    /\ year_month_pairs' = time_bounds_to_year_month(tb)
    /\ bpc' = "done"
    /\ UNCHANGED tb

BatchNext ==
    \/ Batch /\ UNCHANGED <<dl_vars, parse_vars>>

----------------------------------------------------------------------------
\* Dataset classes and the constants cds_request uses

PRODUCT_FNAME ==
    [d \in {"reanalysis-era5-single-levels", "reanalysis-era5-land"} |->
        IF d = "reanalysis-era5-single-levels" THEN "era5" ELSE "era5-land"]

\* SpatialBounds(north, east, south, west)
SpatialBounds(n, e, s, w) == [north |-> n, east |-> e, south |-> s, west |-> w]

\* class ERA5(Dataset): its attributes and the keyword arguments its
\* download passes to utils.cds_request
ERA5 ==
    [name |-> "era5",
     time_bounds |-> [start |-> <<1940, 1, 1>>, end |-> <<2023, 6, 30>>],
     spatial_bounds |-> SpatialBounds(90, 180, -90, -180),
     variable_names |-> {"mean_total_precipitation_rate",
                         "surface_thermal_radiation_downwards",
                         "surface_solar_radiation_downwards",
                         "surface_pressure",
                         "10m_u_component_of_wind",
                         "10m_v_component_of_wind"},
     call_keywords |-> {"product", "variables", "time_bounds",
                        "spatial_bounds", "path", "overwrite"}]

\* class ERA5Land(Dataset): the dataset the test suite downloads with
ERA5Land ==
    [name |-> "era5-land",
     time_bounds |-> [start |-> <<1950, 1, 1>>, end |-> <<2023, 6, 30>>],
     spatial_bounds |-> SpatialBounds(90, 180, -90, -180),
     variable_names |-> {"air_temperature", "dewpoint_temperature"},
     call_keywords |-> {"dataset", "variables", "time_bounds",
                        "spatial_bounds", "path", "cds_var_names",
                        "overwrite"},
     dataset |-> "reanalysis-era5-land",
     cds_var_names |->
         [v \in {"air_temperature", "dewpoint_temperature"} |->
             IF v = "air_temperature" THEN "2m_temperature"
             ELSE "2m_dewpoint_temperature"]]

Cls(c) == IF c = "ERA5" THEN ERA5 ELSE ERA5Land

\* parameters of def cds_request(...): none has a default
cds_request_params ==
    {"dataset", "variables", "time_bounds", "spatial_bounds", "path",
     "cds_var_names", "overwrite"}

\* Python binds a call when every keyword names a parameter and every
\* parameter without default is given
CallBinds(keywords, params) == keywords \subseteq params /\ params \subseteq keywords

\* validation.validate_download_request: the request lies inside the
\* dataset's declared envelope
ValidRequest(c, tbs, sb, names) ==
    /\ DateLE(Cls(c).time_bounds.start, tbs.start)
    /\ DateLE(tbs.end, Cls(c).time_bounds.end)
    /\ sb.north <= Cls(c).spatial_bounds.north
    /\ sb.east <= Cls(c).spatial_bounds.east
    /\ sb.south >= Cls(c).spatial_bounds.south
    /\ sb.west >= Cls(c).spatial_bounds.west
    /\ \A i \in 1..Len(names) : names[i] \in Cls(c).variable_names

\* the "day" and "time" enumerations of every request
pad2(n) == IF n < 10 THEN "0" \o str(n) ELSE str(n)
DayEnum == [d \in 1..31 |-> pad2(d)]
TimeEnum == [h \in 1..24 |-> pad2(h - 1) \o ":00"]

\* the "area" entry of a request
AreaESWN(sb) == <<sb.east, sb.south, sb.west, sb.north>>
Area(sb) == <<sb.north, sb.west, sb.south, sb.east>>

\* the request dictionary of c.retrieve(dataset, {...})
Request(dataset, cds_var_names, variable, year, month, sb) ==
    [dataset |-> dataset,
     product_type |-> "reanalysis",
     variable |-> <<cds_var_names[variable]>>,
     year |-> year,
     month |-> month,
     day |-> DayEnum,
     time |-> TimeEnum,
     area |-> Area(sb),
     format |-> "netcdf"]

\* fpath.name of the target of one loop item
TargetName(fname, variable, year, month) ==
    fname \o "_" \o variable \o "_" \o year \o "-" \o month \o ".nc"

\* itertools.product(A, B): the last iterable advances fastest
product_inner_first(A, B) ==
    [i \in 1..(Len(A) * Len(B)) |->
        <<A[((i - 1) % Len(A)) + 1], B[((i - 1) \div Len(A)) + 1]>>]
RECURSIVE product(_, _)
product(A, B) ==
    IF A = <<>> THEN <<>>
    ELSE [j \in 1..Len(B) |-> <<Head(A), B[j]>>] \o product(Tail(A), B)

get_file_size(fs, fpath) ==
    IF fpath \notin DOMAIN fs THEN 0 ELSE fs[fpath]

\* the test of cds_request that decides between r.download and the skip
needs_download_ignoring_overwrite(local_size, remote_size, overwrite_) ==
    local_size # remote_size
needs_download(local_size, remote_size, overwrite_) ==
    local_size # remote_size \/ overwrite_

----------------------------------------------------------------------------
\* Spec: Dataset.download and utils.cds_request

DlMonths == FirstMonthIdx .. (FirstMonthIdx + MaxDlMonths - 1)
DlDates == {<<YearOf(i), MonthOf(i), 1>> : i \in DlMonths}
               \cup {MonthEndDate(i) : i \in DlMonths}

VarPool == {"air_temperature", "dewpoint_temperature", "surface_pressure"}
VarLists == UNION {[1..n -> VarPool] : n \in 1..MaxVarsLen}

NoSpatialBounds == SpatialBounds(0, 0, 0, 0)
NoProperties ==
    [exists |-> FALSE, spatial_bounds |-> NoSpatialBounds,
     time_bounds |-> NoTimeBounds, variable_names |-> <<>>]

\* the target file and the request of loop item it
ItemTarget(c, it) == TargetName(PRODUCT_FNAME[Cls(c).dataset], it[2],
                                it[1][1], it[1][2])
ItemRequest(c, it, sb) == Request(Cls(c).dataset, Cls(c).cds_var_names,
                                  it[2], it[1][1], it[1][2], sb)

DlInit ==
    /\ pc = "start"
    /\ run = 1
    /\ cls \in {"ERA5", "ERA5Land"}
    /\ time_bounds \in TimeBoundsOver(DlDates)
    /\ spatial_bounds \in {SpatialBounds(54, 56, 1, 3),
                           SpatialBounds(91, 56, 1, 3)}
    /\ variable_names \in VarLists
    /\ Len(time_bounds_to_year_month(time_bounds)) * Len(variable_names)
           <= MaxItems
    /\ overwrite \in BOOLEAN
    /\ dir_exists = FALSE
    /\ files = <<>>
    /\ properties = NoProperties
    /\ retval = "none"
    /\ error = "none"
    /\ config = "unread"
    /\ items = <<>>
    /\ k = 0
    /\ calls = <<>>
    /\ outcome = "none"
    /\ content_length = 0
    /\ steps = <<>>
    /\ prev_calls = <<>>
    /\ prev_returned = FALSE

\* an exception leaves download: nothing after the raising statement runs
Raise(exc) ==
    /\ error' = exc
    /\ pc' = "raised"

\* validation.validate_download_request(...) returned although the request
\* is invalid
ValidateNoAbort ==
    /\ pc = "start"
    /\ steps' = Append(steps, "validate")
    /\ pc' = "mkdir"
    /\ UNCHANGED <<run, cls, time_bounds, spatial_bounds, variable_names,
                   overwrite, dir_exists, files, properties, retval, error,
                   config, items, k, calls, outcome, content_length, prev_calls, prev_returned>>

\* validation.validate_download_request(self, download_dir, ...)
Validate ==
    /\ pc = "start"
    /\ steps' = Append(steps, "validate")
    /\ IF ValidRequest(cls, time_bounds, spatial_bounds, variable_names)
       THEN pc' = "mkdir" /\ UNCHANGED error
       ELSE Raise("ValidationError")
    /\ UNCHANGED <<run, cls, time_bounds, spatial_bounds, variable_names,
                   overwrite, dir_exists, files, properties, retval,
                   config, items, k, calls, outcome, content_length, prev_calls, prev_returned>>

\* download_folder.mkdir(parents=True, exist_ok=True)
Mkdir ==
    /\ pc = "mkdir"
    /\ steps' = Append(steps, "mkdir")
    /\ dir_exists' = TRUE
    /\ pc' = "call"
    /\ UNCHANGED <<run, cls, time_bounds, spatial_bounds, variable_names,
                   overwrite, files, properties, retval, error,
                   config, items, k, calls, outcome, content_length, prev_calls, prev_returned>>

\* the call utils.cds_request(...): Python binds the keywords first
CallCdsRequest ==
    /\ pc = "call"
    /\ steps' = Append(steps, "cds_request")
    /\ IF CallBinds(Cls(cls).call_keywords, cds_request_params)
       THEN pc' = "config" /\ UNCHANGED error
       ELSE Raise("TypeError")
    /\ UNCHANGED <<run, cls, time_bounds, spatial_bounds, variable_names,
                   overwrite, dir_exists, files, properties, retval,
                   config, items, k, calls, outcome, content_length, prev_calls, prev_returned>>

\* cds_request up to its loop: fname, the two lines of CDSAPI_CONFIG_PATH,
\* the client, year_month_pairs and the product iterator
ReadConfig ==
    /\ pc = "config"
    /\ \E found \in {"ok", "missing", "malformed"} :
        /\ config' = found
        /\ IF found = "ok"
           THEN /\ items' = product(time_bounds_to_year_month(time_bounds),
                                    variable_names)
                /\ pc' = "loop"
                /\ UNCHANGED error
           ELSE /\ Raise(IF found = "missing" THEN "FileNotFoundError"
                         ELSE "IndexError")
                /\ UNCHANGED items
    /\ k' = 0
    /\ UNCHANGED <<run, cls, time_bounds, spatial_bounds, variable_names,
                   overwrite, dir_exists, files, properties, retval,
                   calls, outcome, content_length,
                   steps, prev_calls, prev_returned>>

\* one loop item whose c.retrieve answers: r.download or the skip
Retrieve ==
    /\ pc = "loop"
    /\ k < Len(items)
    /\ \E size \in 0..MaxSize :
        LET it == items[k + 1]
            fpath == ItemTarget(cls, it)
        IN  /\ calls' = Append(calls, ItemRequest(cls, it, spatial_bounds))
            /\ content_length' = size
            /\ IF needs_download(get_file_size(files, fpath), size, overwrite)
               THEN /\ files' = (fpath :> size) @@ files
                    /\ outcome' = "downloaded"
               ELSE /\ outcome' = "skipped"
                    /\ UNCHANGED files
    /\ k' = k + 1
    /\ steps' = Append(steps, "retrieve")
    /\ UNCHANGED <<pc, run, cls, time_bounds, spatial_bounds, variable_names,
                   overwrite, dir_exists, properties, retval, error,
                   config, items, prev_calls, prev_returned>>

\* one loop item whose c.retrieve raises
RetrieveFail ==
    /\ pc = "loop"
    /\ k < Len(items)
    /\ calls' = Append(calls, ItemRequest(cls, items[k + 1], spatial_bounds))
    /\ steps' = Append(steps, "retrieve")
    /\ Raise("RetrievalError")
    /\ UNCHANGED <<run, cls, time_bounds, spatial_bounds, variable_names,
                   overwrite, dir_exists, files, properties, retval,
                   config, items, k, outcome, content_length,
                   prev_calls, prev_returned>>

\* one loop item whose r.download raises: the target is left untouched or
\* holds the bytes that arrived
DownloadFail ==
    /\ pc = "loop"
    /\ k < Len(items)
    /\ \E size \in 0..MaxSize :
        LET it == items[k + 1]
            fpath == ItemTarget(cls, it)
        IN  /\ needs_download(get_file_size(files, fpath), size, overwrite)
            /\ calls' = Append(calls, ItemRequest(cls, it, spatial_bounds))
            /\ content_length' = size
            /\ outcome' = "failed"
            /\ \/ UNCHANGED files
               \/ \E part \in 0..(size - 1) :
                      files' = (fpath :> part) @@ files
    /\ steps' = Append(steps, "retrieve")
    /\ Raise("RetrievalError")
    /\ UNCHANGED <<run, cls, time_bounds, spatial_bounds, variable_names,
                   overwrite, dir_exists, properties, retval,
                   config, items, k, prev_calls, prev_returned>>

\* the loop is exhausted and cds_request returns None
CdsRequestReturn ==
    /\ pc = "loop"
    /\ k = Len(items)
    /\ pc' = "props"
    /\ UNCHANGED <<run, cls, time_bounds, spatial_bounds, variable_names,
                   overwrite, dir_exists, files, properties, retval, error,
                   config, items, k, calls, outcome, content_length, steps, prev_calls, prev_returned>>

\* write_properties_file(download_folder, spatial_bounds, time_bounds,
\* variable_names)
WriteProperties ==
    /\ pc = "props"
    /\ steps' = Append(steps, "write_properties")
    /\ properties' = [exists |-> TRUE, spatial_bounds |-> spatial_bounds,
                      time_bounds |-> time_bounds,
                      variable_names |-> variable_names]
    /\ pc' = "return"
    /\ UNCHANGED <<run, cls, time_bounds, spatial_bounds, variable_names,
                   overwrite, dir_exists, files, retval, error,
                   config, items, k, calls, outcome, content_length, prev_calls, prev_returned>>

\* return True
Return ==
    /\ pc = "return"
    /\ steps' = Append(steps, "return")
    /\ retval' = "True"
    /\ pc' = "returned"
    /\ UNCHANGED <<run, cls, time_bounds, spatial_bounds, variable_names,
                   overwrite, dir_exists, files, properties, error,
                   config, items, k, calls, outcome, content_length, prev_calls, prev_returned>>

\* the caller invokes download again on the same folder with the same
\* request, choosing overwrite anew
Reinvoke ==
    /\ pc \in {"returned", "raised"}
    /\ run < MaxRuns
    /\ run' = run + 1
    /\ overwrite' \in BOOLEAN
    /\ prev_calls' = IF pc = "returned" THEN calls ELSE <<>>
    /\ prev_returned' = (pc = "returned")
    /\ pc' = "start"
    /\ retval' = "none"
    /\ error' = "none"
    /\ config' = "unread"
    /\ items' = <<>>
    /\ k' = 0
    /\ calls' = <<>>
    /\ outcome' = "none"
    /\ content_length' = 0
    /\ steps' = <<>>
    /\ UNCHANGED <<cls, time_bounds, spatial_bounds, variable_names,
                   dir_exists, files, properties>>

----------------------------------------------------------------------------
\* utils.parse_nc_file

var_reference_era5_to_zampy_with_canonical_keys ==
    [c \in {"mtpr", "strd", "ssrd", "sp", "u10", "v10", "t2m", "d2m",
            "surface_thermal_radiation_downwards",
            "surface_solar_radiation_downwards"} |->
        CASE c = "mtpr" -> "total_precipitation"
          [] c = "strd" -> "surface_thermal_radiation_downwards"
          [] c = "ssrd" -> "surface_solar_radiation_downwards"
          [] c = "sp" -> "surface_pressure"
          [] c = "u10" -> "eastward_component_of_wind"
          [] c = "v10" -> "northward_component_of_wind"
          [] c = "t2m" -> "air_temperature"
          [] c = "d2m" -> "dewpoint_temperature"
          [] OTHER -> c]
var_reference_era5_to_zampy ==
    [c \in {"mtpr", "strd", "ssrd", "sp", "u10", "v10", "t2m", "d2m"} |->
        CASE c = "mtpr" -> "total_precipitation"
          [] c = "strd" -> "surface_thermal_radiation_downwards"
          [] c = "ssrd" -> "surface_solar_radiation_downwards"
          [] c = "sp" -> "surface_pressure"
          [] c = "u10" -> "eastward_component_of_wind"
          [] c = "v10" -> "northward_component_of_wind"
          [] c = "t2m" -> "air_temperature"
          [] c = "d2m" -> "dewpoint_temperature"]

WATER_DENSITY == 997

\* zampy.reference.variables.VARIABLE_REFERENCE_LOOKUP: unit and description
\* of each canonical variable
VARIABLE_REFERENCE_LOOKUP ==
    [n \in {"total_precipitation", "surface_thermal_radiation_downwards",
            "surface_solar_radiation_downwards", "surface_pressure",
            "eastward_component_of_wind", "northward_component_of_wind",
            "air_temperature", "dewpoint_temperature"} |->
        [unit |-> CASE n = "total_precipitation" -> "millimeter_per_second"
                    [] n \in {"surface_thermal_radiation_downwards",
                              "surface_solar_radiation_downwards"} ->
                           "watt_per_square_meter"
                    [] n = "surface_pressure" -> "pascal"
                    [] n \in {"eastward_component_of_wind",
                              "northward_component_of_wind"} ->
                           "meter_per_second"
                    [] OTHER -> "kelvin",
         desc |-> "desc of " \o n]]

\* values are exact rationals <<numerator, denominator>> in lowest terms
RECURSIVE GCD(_, _)
GCD(a, b) == IF b = 0 THEN a ELSE GCD(b, a % b)

Q(n, d) == LET g == GCD(n, d) IN IF g = 0 THEN <<0, 1>> ELSE <<n \div g, d \div g>>
QDiv(q, n) == Q(q[1], q[2] * n)
QMul(q, n) == Q(q[1] * n, q[2])

\* converter._convert_var(ds, name, unit): the values expressed in unit
UnitsPerMeterPerSecond == [u \in {"meter_per_second", "millimeter_per_second"} |->
                              IF u = "meter_per_second" THEN 1 ELSE 1000]
convert_var(value, from, to) ==
    QDiv(QMul(value, UnitsPerMeterPerSecond[to]), UnitsPerMeterPerSecond[from])

\* the rescaling branches of parse_nc_file
rescale_solar_only(variable_name, value) ==
    IF variable_name = "surface_solar_radiation_downwards"
    THEN QDiv(value, 3600)
    ELSE IF variable_name = "total_precipitation"
    THEN convert_var(QDiv(value, WATER_DENSITY), "meter_per_second",
                     VARIABLE_REFERENCE_LOOKUP[variable_name].unit)
    ELSE value
rescale(variable_name, value) ==
    IF variable_name \in {"surface_solar_radiation_downwards",
                          "surface_thermal_radiation_downwards"}
    THEN QDiv(value, 3600)
    ELSE IF variable_name = "total_precipitation"
    THEN convert_var(QDiv(value, WATER_DENSITY), "meter_per_second",
                     VARIABLE_REFERENCE_LOOKUP[variable_name].unit)
    ELSE value

\* ds.rename({var: variable_name}) raises when another variable already
\* carries the new name
rename_conflicts(cur, var, variable_name) ==
    \E j \in 1..Len(cur) : cur[j].name = variable_name /\ cur[j].name # var

\* the body of the loop for one registered variable, with the division
\* applied to the whole dataset
parse_variable_whole_ds(cur, var) ==
    LET variable_name == var_reference_era5_to_zampy[var]
    IN  [j \in 1..Len(cur) |->
            IF cur[j].name = var
            THEN [name |-> variable_name,
                  value |-> rescale(variable_name, cur[j].value),
                  units |-> VARIABLE_REFERENCE_LOOKUP[variable_name].unit,
                  description |-> VARIABLE_REFERENCE_LOOKUP[variable_name].desc]
            ELSE [cur[j] EXCEPT !.value = rescale(variable_name, @)]]
\* the body of the loop for one registered variable: rename, rescale, stamp
parse_variable(cur, var) ==
    LET variable_name == var_reference_era5_to_zampy[var]
    IN  [j \in 1..Len(cur) |->
            IF cur[j].name = var
            THEN [name |-> variable_name,
                  value |-> rescale(variable_name, cur[j].value),
                  units |-> VARIABLE_REFERENCE_LOOKUP[variable_name].unit,
                  description |-> VARIABLE_REFERENCE_LOOKUP[variable_name].desc]
            ELSE cur[j]]

\* for variable in ds.variables: the names of the dataset as opened
RECURSIVE parse_loop(_, _)
parse_loop(names, cur) ==
    IF names = <<>> THEN [ok |-> TRUE, vars |-> cur]
    ELSE LET variable == Head(names)
         IN  IF variable \in DOMAIN var_reference_era5_to_zampy
             THEN IF rename_conflicts(cur, variable,
                                      var_reference_era5_to_zampy[variable])
                  THEN [ok |-> FALSE, vars |-> <<>>]
                  ELSE parse_loop(Tail(names), parse_variable(cur, variable))
             ELSE parse_loop(Tail(names), cur)

parse_nc_file(ds) == parse_loop([j \in 1..Len(ds) |-> ds[j].name], ds)

----------------------------------------------------------------------------
\* ParseSpec: parse_nc_file on bounded raw files, then on its own output

RawNames == {"strd", "ssrd", "mtpr", "sp", "t2m", "latitude",
             "surface_pressure"}
RawValues == {<<72, 1>>, <<997, 1>>}
RawAttrs == {[units |-> "", description |-> ""],
             [units |-> "J m**-2", description |-> "raw"]}

RawVariables ==
    {[name |-> n, value |-> v, units |-> a.units,
      description |-> a.description] :
        n \in RawNames, v \in RawValues, a \in RawAttrs}

\* a file holds each variable name once
RawFiles ==
    UNION {{f \in [1..n -> RawVariables] :
               \A i, j \in 1..n : i # j => f[i].name # f[j].name} :
           n \in 1..MaxDsVars}

ParseInit ==
    /\ ppc = "raw"
    /\ ds0 \in RawFiles
    /\ ds1 = <<>>
    /\ ds2 = <<>>

\* ds = parse_nc_file(file)
Parse ==
    /\ ppc = "raw"
    /\ LET res == parse_nc_file(ds0)
       IN  /\ ppc' = IF res.ok THEN "parsed" ELSE "failed"
           /\ ds1' = res.vars
    /\ UNCHANGED <<ds0, ds2>>

\* parse_nc_file on the dataset the first call returned
Reparse ==
    /\ ppc = "parsed"
    /\ LET res == parse_nc_file(ds1)
       IN  /\ ppc' = IF res.ok THEN "reparsed" ELSE "refailed"
           /\ ds2' = res.vars
    /\ UNCHANGED <<ds0, ds1>>

ParseNext ==
    \/ Parse /\ UNCHANGED <<batch_vars, dl_vars>>
    \/ Reparse /\ UNCHANGED <<batch_vars, dl_vars>>

----------------------------------------------------------------------------
\* The three specifications

BatchOff == bpc = "off" /\ tb = NoTimeBounds /\ year_month_pairs = <<>>

DlOff ==
    /\ pc = "off" /\ run = 0 /\ cls = "ERA5"
    /\ time_bounds = NoTimeBounds /\ spatial_bounds = NoSpatialBounds
    /\ variable_names = <<>> /\ overwrite = FALSE /\ dir_exists = FALSE
    /\ files = <<>> /\ properties = NoProperties /\ retval = "none"
    /\ error = "none" /\ config = "unread" /\ items = <<>> /\ k = 0
    /\ calls = <<>> /\ outcome = "none"
    /\ content_length = 0 /\ steps = <<>> /\ prev_calls = <<>>
    /\ prev_returned = FALSE

ParseOff == ppc = "off" /\ ds0 = <<>> /\ ds1 = <<>> /\ ds2 = <<>>

Init == DlInit /\ BatchOff /\ ParseOff
Next ==
    \/ Validate /\ UNCHANGED <<batch_vars, parse_vars>>
    \/ Mkdir /\ UNCHANGED <<batch_vars, parse_vars>>
    \/ CallCdsRequest /\ UNCHANGED <<batch_vars, parse_vars>>
    \/ ReadConfig /\ UNCHANGED <<batch_vars, parse_vars>>
    \/ Retrieve /\ UNCHANGED <<batch_vars, parse_vars>>
    \/ RetrieveFail /\ UNCHANGED <<batch_vars, parse_vars>>
    \/ DownloadFail /\ UNCHANGED <<batch_vars, parse_vars>>
    \/ CdsRequestReturn /\ UNCHANGED <<batch_vars, parse_vars>>
    \/ WriteProperties /\ UNCHANGED <<batch_vars, parse_vars>>
    \/ Return /\ UNCHANGED <<batch_vars, parse_vars>>
    \/ Reinvoke /\ UNCHANGED <<batch_vars, parse_vars>>
Spec == Init /\ [][Next]_vars

BInit == BatchInit /\ DlOff /\ ParseOff
BatchSpec == BInit /\ [][BatchNext]_vars

PInit == ParseInit /\ BatchOff /\ DlOff
ParseSpec == PInit /\ [][ParseNext]_vars

----------------------------------------------------------------------------
\* Properties of the request batcher (BatchSpec)

YearMonth(idx) == <<str(YearOf(idx)), str(MonthOf(idx))>>

\* months of the window whose last day lies in [start, end]
MonthEndsWithin(b) ==
    {i \in BatchMonths : /\ DateLE(b.start, MonthEndDate(i))
                         /\ DateLE(MonthEndDate(i), b.end)}

\* the n-th smallest element of a set of integers
Nth(S, n) == CHOOSE i \in S : Cardinality({j \in S : j < i}) = n - 1

\* C4: time_bounds_to_year_month returns exactly one (year, month) string
\* pair per calendar month end lying in [start, end], both ends inclusive,
\* in chronological order and without duplicates; it returns the empty
\* sequence when no month end lies in [start, end].
C4_OnePairPerMonthEnd ==
    bpc = "done" =>
        /\ Len(year_month_pairs) = Cardinality(MonthEndsWithin(tb))
        /\ \A n \in 1..Len(year_month_pairs) :
               year_month_pairs[n] = YearMonth(Nth(MonthEndsWithin(tb), n))
        /\ (tb = [start |-> <<2011, 12, 1>>, end |-> <<2012, 1, 31>>]
               => year_month_pairs = << <<"2011", "12">>, <<"2012", "1">> >>)

\* three month ends across the turn of the year, the last one a leap-year
\* 29 February that is the end bound itself
C4_Witness ==
    /\ bpc = "done"
    /\ tb.start = <<2011, 12, 31>>
    /\ tb.end = <<2012, 2, 29>>
    /\ year_month_pairs =
           << <<"2011", "12">>, <<"2012", "1">>, <<"2012", "2">> >>

\* C10: every calendar month that contains at least one day of
\* [start, end] appears as a (year, month) pair of the batcher, so a range
\* that ends before the last day of a month still requests that month and a
\* non-empty range never yields zero pairs.
C10_EveryTouchedMonthRequested ==
    bpc = "done" =>
        \A i \in BatchMonths :
            (MonthIdx(tb.start) <= i /\ i <= MonthIdx(tb.end)) =>
                \E n \in 1..Len(year_month_pairs) :
                    year_month_pairs[n] = YearMonth(i)

----------------------------------------------------------------------------
\* Properties of download and cds_request (Spec)

\* a loop item of cds_request completed without an exception
Iteration == pc = "loop" /\ pc' = "loop" /\ k' = k + 1

\* the target of the item being processed exists with the size the server
\* reports for it
SameSizedFileExists ==
    /\ ItemTarget(cls, items[k + 1]) \in DOMAIN files
    /\ files[ItemTarget(cls, items[k + 1])] = content_length'

\* C1 (as stated): with overwrite=False and a local target of the
\* server-reported size, zero c.retrieve calls are issued for that file;
\* with overwrite=True exactly one c.retrieve call is issued for it.
C1_NoRetrieveWhenSameSize ==
    [][Iteration =>
          IF ~overwrite /\ SameSizedFileExists
          THEN calls' = calls
          ELSE overwrite => Len(calls') = Len(calls) + 1]_vars

\* C1 (amended): every loop item that raises no error issues exactly one
\* c.retrieve call; with overwrite=False and a local target of the
\* server-reported size it issues no r.download and leaves the file as it
\* is; with overwrite=True it issues exactly one r.download whatever the
\* size of the existing file, and the file then has the reported size.
C1_OneRetrieveNoTransferWhenSameSize ==
    [][Iteration =>
          LET fpath == ItemTarget(cls, items[k + 1])
          IN  /\ Len(calls') = Len(calls) + 1
              /\ SubSeq(calls', 1, Len(calls)) = calls
              /\ (~overwrite /\ SameSizedFileExists =>
                     /\ outcome' = "skipped"
                     /\ files' = files)
              /\ (overwrite =>
                     /\ outcome' = "downloaded"
                     /\ fpath \in DOMAIN files'
                     /\ files'[fpath] = content_length')]_vars

\* a second invocation with overwrite=False skipped a target it found with
\* the reported size, after asking the server for it
C1_Witness ==
    /\ run = 2
    /\ ~overwrite
    /\ pc = "loop"
    /\ k >= 1
    /\ Len(calls) = k
    /\ outcome = "skipped"
    /\ ItemTarget(cls, items[k]) \in DOMAIN files
    /\ files[ItemTarget(cls, items[k])] = content_length

\* the config read, if it happened, found a well-formed file, and no
\* retrieval or transfer failed
NothingExternalFailed ==
    /\ config \notin {"missing", "malformed"}
    /\ error # "RetrievalError"

\* C2: for a request that passes validation, with a well-formed credential
\* file and every retrieval succeeding, ERA5.download creates the
\* directory, issues the retrieval calls through utils.cds_request, writes
\* a properties record whose variable_names equal the input list and
\* returns True.
C2_ERA5DownloadSucceeds ==
    (/\ cls = "ERA5"
     /\ pc \in {"returned", "raised"}
     /\ ValidRequest(cls, time_bounds, spatial_bounds, variable_names)
     /\ NothingExternalFailed)
    => /\ retval = "True"
       /\ dir_exists
       /\ Len(calls) = Len(time_bounds_to_year_month(time_bounds))
                           * Len(variable_names)
       /\ properties.exists
       /\ properties.variable_names = variable_names

StepRank(st) ==
    CASE st = "validate" -> 1
      [] st = "mkdir" -> 2
      [] st = "cds_request" -> 3
      [] st = "retrieve" -> 4
      [] st = "write_properties" -> 5
      [] st = "return" -> 6

\* the step that must have been taken before a step of this rank
StepBefore(r) == IF r = 5 THEN 3 ELSE r - 1

\* C3: the steps of download occur in the order validate, create
\* directory, retrievals, write properties, return True; an error at a step
\* aborts every later step: a validation error precedes any retrieval
\* call, a failed retrieval is the last call of the invocation (not
\* retried), reaches the caller, and leaves no properties record written
\* and no True returned by that invocation.
C3_StepsInOrderAndErrorsAbort ==
    /\ \A i, j \in 1..Len(steps) :
           i < j => /\ StepRank(steps[i]) <= StepRank(steps[j])
                    /\ (StepRank(steps[i]) = StepRank(steps[j])
                           => steps[i] = "retrieve")
    /\ \A j \in 1..Len(steps) :
           StepRank(steps[j]) > 1 =>
               \E i \in 1..(j - 1) :
                   StepRank(steps[i]) = StepBefore(StepRank(steps[j]))
    /\ (\E j \in 1..Len(steps) : steps[j] = "mkdir") =>
           ValidRequest(cls, time_bounds, spatial_bounds, variable_names)
    /\ (\E j \in 1..Len(steps) : steps[j] = "mkdir") => dir_exists
    /\ Len(calls) = Cardinality({j \in 1..Len(steps) : steps[j] = "retrieve"})
    /\ (error = "none") = (pc # "raised")
    /\ error = "ValidationError" => steps = <<"validate">> /\ calls = <<>>
    /\ error = "RetrievalError" =>
           /\ steps[Len(steps)] = "retrieve"
           /\ Len(calls) = k + 1
    /\ pc = "raised" =>
           /\ retval = "none"
           /\ \A j \in 1..Len(steps) :
                  steps[j] \notin {"write_properties", "return"}
    /\ retval = "True" =>
           /\ pc = "returned"
           /\ steps[Len(steps)] = "return"
           /\ steps[Len(steps) - 1] = "write_properties"
           /\ properties.exists

\* ERA5.download rejected an invalid request before creating the folder or
\* issuing a call
C3_Witness ==
    /\ cls = "ERA5"
    /\ pc = "raised"
    /\ error = "ValidationError"
    /\ ~ValidRequest(cls, time_bounds, spatial_bounds, variable_names)
    /\ steps = <<"validate">>
    /\ ~dir_exists
    /\ calls = <<>>

\* C5: an error-free run of cds_request issues exactly one request per
\* (year, month) pair of the batcher and requested variable, the pairs in
\* the outer loop and the variables in the inner loop; each request carries
\* the pair's year and month, the variable's server-side name and the area
\* as [north, west, south, east]; two error-free runs on the same inputs
\* issue the same sequence of requests.
C5_RequestsInProductOrder ==
    pc \in {"props", "return", "returned"} =>
        LET pairs == time_bounds_to_year_month(time_bounds)
            nv == Len(variable_names)
        IN  /\ Len(calls) = Len(pairs) * nv
            /\ \A i \in 1..Len(calls) :
                   LET pair == pairs[((i - 1) \div nv) + 1]
                       variable == variable_names[((i - 1) % nv) + 1]
                   IN  /\ calls[i].year = pair[1]
                       /\ calls[i].month = pair[2]
                       /\ calls[i].variable =
                              <<Cls(cls).cds_var_names[variable]>>
                       /\ calls[i].area =
                              <<spatial_bounds.north, spatial_bounds.west,
                                spatial_bounds.south, spatial_bounds.east>>
                       /\ calls[i].dataset = Cls(cls).dataset
                       /\ calls[i].format = "netcdf"
            /\ (prev_returned => calls = prev_calls)

\* a second error-free run over two months and two different variables
C5_Witness ==
    /\ pc = "returned"
    /\ run = 2
    /\ prev_returned
    /\ Len(calls) = 4
    /\ calls[1].variable # calls[2].variable
    /\ calls[1].month = calls[2].month
    /\ calls[2].month # calls[3].month
    /\ calls[1].area = <<54, 3, 1, 56>>

\* C9: a target that does not exist locally is never skipped, so after an
\* error-free run of cds_request every target file of the batch exists in
\* the download folder, whatever sizes the server reported and whatever
\* overwrite was.
C9_EveryTargetExistsAfterRun ==
    pc \in {"props", "return", "returned"} =>
        \A i \in 1..Len(items) : ItemTarget(cls, items[i]) \in DOMAIN files

----------------------------------------------------------------------------
\* Properties of parse_nc_file (ParseSpec)

Registered(name) == name \in DOMAIN var_reference_era5_to_zampy

\* rational equality a = b * num / den, by cross multiplication
QEqualsScaled(a, b, num, den) == a[1] * b[2] * den = b[1] * num * a[2]

\* C6: every registered variable of the raw file is renamed to its
\* canonical name; its values are rescaled once and only in the two special
\* cases (radiation: V/3600; total_precipitation: V/997.0, then meters per
\* second expressed in the registry's millimeters per second) and are
\* unchanged otherwise; its units and description attributes are the
\* registry's, whatever they were before.
C6_RenameRescaleStamp ==
    ppc \in {"parsed", "reparsed"} =>
        /\ Len(ds1) = Len(ds0)
        /\ \A i \in 1..Len(ds0) :
               Registered(ds0[i].name) =>
                   LET canonical == var_reference_era5_to_zampy[ds0[i].name]
                   IN  /\ ds1[i].name = canonical
                       /\ CASE ds0[i].name \in {"strd", "ssrd"} ->
                                   QEqualsScaled(ds1[i].value, ds0[i].value,
                                                 1, 3600)
                            [] ds0[i].name = "mtpr" ->
                                   QEqualsScaled(ds1[i].value, ds0[i].value,
                                                 1000, 997)
                            [] OTHER -> ds1[i].value = ds0[i].value
                       /\ ds1[i].units =
                              VARIABLE_REFERENCE_LOOKUP[canonical].unit
                       /\ ds1[i].description =
                              VARIABLE_REFERENCE_LOOKUP[canonical].desc

\* a file with thermal radiation and precipitation, both carrying raw
\* attributes, was parsed
C6_Witness ==
    /\ ppc = "parsed"
    /\ \E i, j \in 1..Len(ds0) :
           /\ ds0[i].name = "strd"
           /\ ds0[i].value = <<72, 1>>
           /\ ds0[i].units = "J m**-2"
           /\ ds1[i].value = <<1, 50>>
           /\ ds1[i].units = "watt_per_square_meter"
           /\ ds0[j].name = "mtpr"
           /\ ds0[j].value = <<997, 1>>
           /\ ds1[j].value = <<1000, 1>>
           /\ ds1[j].name = "total_precipitation"

\* C7: no canonical name of the registry is a raw-code key of it, so
\* parse_nc_file applied to its own output renames and rescales nothing:
\* names, values and units/description attributes after the second
\* application equal those after the first.
C7_ParseIdempotent ==
    /\ \A c \in DOMAIN var_reference_era5_to_zampy :
           ~Registered(var_reference_era5_to_zampy[c])
    /\ ppc # "refailed"
    /\ ppc = "reparsed" => ds2 = ds1

\* a file whose solar radiation was rescaled by the first application went
\* through the second one
C7_Witness ==
    /\ ppc = "reparsed"
    /\ \E i \in 1..Len(ds0) :
           /\ ds0[i].name = "ssrd"
           /\ ds1[i].name = "surface_solar_radiation_downwards"
           /\ ds1[i].value # ds0[i].value
           /\ ds2[i] = ds1[i]

\* C8: a variable without registry entry keeps its name, values and
\* attributes, whatever registered variables the file holds and whether
\* they come before or after it.
C8_UnregisteredUntouched ==
    ppc \in {"parsed", "reparsed"} =>
        /\ Len(ds1) = Len(ds0)
        /\ \A i \in 1..Len(ds0) :
               ~Registered(ds0[i].name) => ds1[i] = ds0[i]

\* an unregistered variable with attributes of its own was parsed in a
\* file that holds a rescaled variable before it
C8_Witness ==
    /\ ppc = "parsed"
    /\ \E i, j \in 1..Len(ds0) :
           /\ i < j
           /\ ds0[i].name = "strd"
           /\ ds1[i].value # ds0[i].value
           /\ ds0[j].name = "latitude"
           /\ ds0[j].units = "J m**-2"
           /\ ds1[j] = ds0[j]

====
